---------------------------- MODULE Spec2Model ----------------------------
(***************************************************************************)
(* Model of HW07_AddressBook.py: the Phone / Birthday validators, Record,  *)
(* AddressBook (with get_upcoming_birthdays), the JSON save / load pair,   *)
(* the command handlers behind @input_error and the command loop of main.  *)
(*                                                                         *)
(* A Python str is a sequence of one-character strings.  A datetime.date   *)
(* is a record [year, month, day]; None in a date slot is NoDate.  A       *)
(* raised exception is the field exc of an operator's result ("none" when  *)
(* the call returns).                                                      *)
(***************************************************************************)
EXTENDS Integers, Sequences, FiniteSets, TLC

(***************************************************************************)
(* Bound of the model: the `add` command is not issued when it would make  *)
(* a contact's phone list longer than this.                                *)
(***************************************************************************)
MaxPhones == 2

-----------------------------------------------------------------------------
(* Strings *)

DigitChars == <<"0", "1", "2", "3", "4", "5", "6", "7", "8", "9">>

IsDigitChar(c) == \E i \in 1..10 : DigitChars[i] = c

DigitVal(c) == (CHOOSE i \in 1..10 : DigitChars[i] = c) - 1

\* str.isdigit(): non-empty and every character a digit
isdigit(s) == Len(s) > 0 /\ \A i \in 1..Len(s) : IsDigitChar(s[i])

RECURSIVE IntOf(_)
\* int(s) for a string of digits
IntOf(s) ==
    IF Len(s) = 0 THEN 0
    ELSE 10 * IntOf(SubSeq(s, 1, Len(s) - 1)) + DigitVal(s[Len(s)])

RECURSIVE Decimal(_)
\* str(n) for n >= 0
Decimal(n) ==
    IF n < 10 THEN <<DigitChars[n + 1]>>
    ELSE Decimal(n \div 10) \o <<DigitChars[(n % 10) + 1]>>

RECURSIVE ZeroPad(_, _)
\* zero-padding to a width, as %d and %m of strftime do
ZeroPad(s, width) == IF Len(s) >= width THEN s ELSE ZeroPad(<<"0">> \o s, width)

\* str.strip() == "" : the string is empty or whitespace only
IsBlank(s) == \A i \in 1..Len(s) : s[i] = " "

\* a string of n copies of the character c
Rep(c, n) == [i \in 1..n |-> c]

-----------------------------------------------------------------------------
(* datetime.date *)

NoDate == [year |-> 0, month |-> 0, day |-> 0]

IsLeap(y) == (y % 4 = 0 /\ y % 100 # 0) \/ y % 400 = 0

DaysInMonth(y, m) ==
    IF m = 2 THEN (IF IsLeap(y) THEN 29 ELSE 28)
    ELSE IF m \in {4, 6, 9, 11} THEN 30 ELSE 31

\* the check of the date constructor (MINYEAR = 1, MAXYEAR = 9999)
ValidDate(y, m, d) ==
    /\ y \in 1..9999
    /\ m \in 1..12
    /\ d \in 1..DaysInMonth(y, m)

DaysBeforeYear(y) ==
    LET p == y - 1 IN p * 365 + (p \div 4) - (p \div 100) + (p \div 400)

RECURSIVE DaysBeforeMonth(_, _)
DaysBeforeMonth(y, m) ==
    IF m = 1 THEN 0 ELSE DaysBeforeMonth(y, m - 1) + DaysInMonth(y, m - 1)

\* date.toordinal(): 0001-01-01 is day 1
toordinal(dt) == DaysBeforeYear(dt.year) + DaysBeforeMonth(dt.year, dt.month) + dt.day

\* date.weekday(): Monday is 0, Saturday 5, Sunday 6
weekday(dt) == (toordinal(dt) + 6) % 7

\* date.__lt__
DateLess(a, b) == toordinal(a) < toordinal(b)

\* (a - b).days
DaysBetween(a, b) == toordinal(a) - toordinal(b)

NextDay(dt) ==
    IF dt.day < DaysInMonth(dt.year, dt.month)
    THEN [dt EXCEPT !.day = dt.day + 1]
    ELSE IF dt.month < 12
    THEN [year |-> dt.year, month |-> dt.month + 1, day |-> 1]
    ELSE [year |-> dt.year + 1, month |-> 1, day |-> 1]

RECURSIVE AddDays(_, _)
\* dt + timedelta(days=n), n >= 0
AddDays(dt, n) == IF n = 0 THEN dt ELSE AddDays(NextDay(dt), n - 1)

\* date.replace(year=y): ValueError when the day does not exist in year y
replace_year(dt, y) ==
    IF ValidDate(y, dt.month, dt.day)
    THEN [exc |-> "none", value |-> [dt EXCEPT !.year = y]]
    ELSE [exc |-> "ValueError", value |-> NoDate]

\* strftime("%d.%m.%Y"); %Y is not zero-padded by the C library on Linux
FormatDMY(dt) ==
    ZeroPad(Decimal(dt.day), 2) \o <<".">> \o ZeroPad(Decimal(dt.month), 2)
        \o <<".">> \o Decimal(dt.year)

\* strftime("%Y.%m.%d")
FormatYMD(dt) ==
    Decimal(dt.year) \o <<".">> \o ZeroPad(Decimal(dt.month), 2)
        \o <<".">> \o ZeroPad(Decimal(dt.day), 2)

\* positions of the "." separators of a string
DotsOf(s) == {i \in 1..Len(s) : s[i] = "."}

\* datetime.strptime(s, "%d.%m.%Y").date(): one or two digits of day, one or
\* two digits of month, exactly four digits of year, then the date constructor
strptime_dmy(s) ==
    LET dots == DotsOf(s)
        p1 == CHOOSE i \in dots : \A j \in dots : i <= j
        p2 == CHOOSE i \in dots : \A j \in dots : j <= i
        ds == SubSeq(s, 1, p1 - 1)
        ms == SubSeq(s, p1 + 1, p2 - 1)
        ys == SubSeq(s, p2 + 1, Len(s))
        shaped == /\ Cardinality(dots) = 2
                  /\ Len(ds) \in 1..2 /\ isdigit(ds)
                  /\ Len(ms) \in 1..2 /\ isdigit(ms)
                  /\ Len(ys) = 4 /\ isdigit(ys)
    IN  IF shaped /\ ValidDate(IntOf(ys), IntOf(ms), IntOf(ds))
        THEN [exc |-> "none",
              value |-> [year |-> IntOf(ys), month |-> IntOf(ms), day |-> IntOf(ds)]]
        ELSE [exc |-> "ValueError", value |-> NoDate]

-----------------------------------------------------------------------------
(* Python values that reach the validators: a command argument is always a *)
(* str; a value read from the JSON file may be a str, a number or null.    *)

PyStr(s) == [t |-> "str", v |-> s]

PyNum(s) == [t |-> "num", v |-> s]

PyNull == [t |-> "null", v |-> <<>>]

\* bool(value): "" , 0 and None are false
Truthy(value) ==
    \/ value.t = "str" /\ value.v # <<>>
    \/ value.t = "num" /\ value.v # <<"0">>

-----------------------------------------------------------------------------
(* Field classes *)

\* Phone.__init__
Phone(value) ==
    IF value.t # "str" THEN [exc |-> "ValueError", value |-> <<>>]
    ELSE IF ~(isdigit(value.v) /\ Len(value.v) = 10)
    THEN [exc |-> "ValueError", value |-> <<>>]
    ELSE [exc |-> "none", value |-> value.v]

\* Birthday.__init__: strptime raises TypeError for a value that is no str,
\* and only ValueError is caught (and re-raised as ValueError)
Birthday(value) ==
    IF value.t # "str" THEN [exc |-> "TypeError", value |-> NoDate]
    ELSE strptime_dmy(value.v)

-----------------------------------------------------------------------------
(* Record *)

\* Record.__init__: the name is stored as given
Record(name) == [name |-> name, phones |-> <<>>, birthday |-> NoDate]

\* Record.add_phone
add_phone(rec, value) ==
    LET phone_obj == Phone(value) IN
    IF phone_obj.exc # "none" THEN [exc |-> phone_obj.exc, rec |-> rec]
    ELSE IF ~(\E i \in 1..Len(rec.phones) : rec.phones[i] = phone_obj.value)
    THEN [exc |-> "none", rec |-> [rec EXCEPT !.phones = Append(@, phone_obj.value)]]
    ELSE [exc |-> "none", rec |-> rec]

\* indexes of the stored phones whose value equals the given Python value
Matches(rec, value) ==
    {i \in 1..Len(rec.phones) : value.t = "str" /\ rec.phones[i] = value.v}

First(S) == CHOOSE i \in S : \A j \in S : i <= j

\* Record.remove_phone: removes the first phone equal to the value
remove_phone(rec, value) ==
    LET m == Matches(rec, value) IN
    IF m = {} THEN rec
    ELSE [rec EXCEPT !.phones =
            SubSeq(@, 1, First(m) - 1) \o SubSeq(@, First(m) + 1, Len(@))]

\* a variant that validates the new number before it looks for the old one
edit_phone_validate_first(rec, old_phone, new_phone) ==
    LET m == Matches(rec, old_phone)
        new_phone_obj == Phone(new_phone)
    IN  IF new_phone_obj.exc # "none"
        THEN [exc |-> new_phone_obj.exc, ret |-> FALSE, rec |-> rec]
        ELSE IF m = {} THEN [exc |-> "none", ret |-> FALSE, rec |-> rec]
        ELSE [exc |-> "none", ret |-> TRUE,
              rec |-> [rec EXCEPT !.phones[First(m)] = new_phone_obj.value]]

\* Record.edit_phone: the new number is validated only once the old one is found
edit_phone(rec, old_phone, new_phone) ==
    LET m == Matches(rec, old_phone)
        new_phone_obj == Phone(new_phone)
    IN  IF m = {} THEN [exc |-> "none", ret |-> FALSE, rec |-> rec]
        ELSE IF new_phone_obj.exc # "none"
        THEN [exc |-> new_phone_obj.exc, ret |-> FALSE, rec |-> rec]
        ELSE [exc |-> "none", ret |-> TRUE,
              rec |-> [rec EXCEPT !.phones[First(m)] = new_phone_obj.value]]

\* Record.add_birthday
add_birthday(rec, value) ==
    LET b == Birthday(value) IN
    IF b.exc # "none" THEN [exc |-> b.exc, rec |-> rec]
    ELSE [exc |-> "none", rec |-> [rec EXCEPT !.birthday = b.value]]

-----------------------------------------------------------------------------
(* AddressBook: the dict `data` in insertion order, one Record per key *)

KeysOf(book) == {book[i].name : i \in 1..Len(book)}

IndexOf(book, name) == CHOOSE i \in 1..Len(book) : book[i].name = name

\* AddressBook.add_record: a new key is appended, an old key keeps its place
add_record(book, rec) ==
    IF rec.name \in KeysOf(book)
    THEN [book EXCEPT ![IndexOf(book, rec.name)] = rec]
    ELSE Append(book, rec)

\* AddressBook.find
find(book, name) ==
    IF name \in KeysOf(book)
    THEN [exc |-> "none", idx |-> IndexOf(book, name)]
    ELSE [exc |-> "KeyError", idx |-> 0]

\* AddressBook.delete
delete(book, name) ==
    IF name \in KeysOf(book)
    THEN [ret |-> TRUE,
          book |-> SubSeq(book, 1, IndexOf(book, name) - 1)
                     \o SubSeq(book, IndexOf(book, name) + 1, Len(book))]
    ELSE [ret |-> FALSE, book |-> book]

\* lines 190-194: the birthday in today's year, or in the next one if passed
birthday_this_year(bday, today) ==
    LET first == replace_year(bday, today.year) IN
    IF first.exc # "none" THEN first
    ELSE IF DateLess(first.value, today)
    THEN replace_year(first.value, today.year + 1)
    ELSE first

\* a variant that moves a Saturday one day only
congratulation_date_sat_plus_1(projected) ==
    IF weekday(projected) = 5 THEN AddDays(projected, 1)
    ELSE IF weekday(projected) = 6 THEN AddDays(projected, 1)
    ELSE projected

\* lines 201-206: Saturday and Sunday move to Monday
congratulation_date(projected) ==
    IF weekday(projected) = 5 THEN AddDays(projected, 2)
    ELSE IF weekday(projected) = 6 THEN AddDays(projected, 1)
    ELSE projected

RECURSIVE upcoming_from(_, _, _, _)
\* the loop of get_upcoming_birthdays from record i on, with the list so far
upcoming_from(book, today, i, upcoming) ==
    IF i > Len(book) THEN [exc |-> "none", upcoming |-> upcoming]
    ELSE IF book[i].birthday = NoDate
    THEN upcoming_from(book, today, i + 1, upcoming)
    ELSE LET projected == birthday_this_year(book[i].birthday, today) IN
         IF projected.exc # "none" THEN [exc |-> projected.exc, upcoming |-> <<>>]
         ELSE LET days_ahead == DaysBetween(projected.value, today) IN
              IF 0 <= days_ahead /\ days_ahead <= 6
              THEN upcoming_from(book, today, i + 1,
                     Append(upcoming,
                       [name |-> book[i].name,
                        congratulation_date |->
                            FormatYMD(congratulation_date(projected.value))]))
              ELSE upcoming_from(book, today, i + 1, upcoming)

\* AddressBook.get_upcoming_birthdays, with date.today() as a parameter
get_upcoming_birthdays(book, today) == upcoming_from(book, today, 1, <<>>)

-----------------------------------------------------------------------------
(* Persistence.  The JSON file is missing, undecodable, or a dict whose    *)
(* entries are [name, phones, birthday] in file order.                     *)

\* FileNotFoundError
NoFile == [kind |-> "missing", entries |-> <<>>]

\* json.JSONDecodeError
CorruptFile == [kind |-> "corrupt", entries |-> <<>>]

\* lines 223-233: data_to_save
data_to_save(book) ==
    [i \in 1..Len(book) |->
        [name |-> book[i].name,
         phones |-> [j \in 1..Len(book[i].phones) |-> PyStr(book[i].phones[j])],
         birthday |-> IF book[i].birthday = NoDate THEN PyNull
                      ELSE PyStr(FormatDMY(book[i].birthday))]]

\* save_address_book: the file is rewritten with json.dump(data_to_save)
save_address_book(book) == [kind |-> "json", entries |-> data_to_save(book)]

RECURSIVE load_phones(_, _, _)
\* lines 257-261: each phone is added, a ValueError is logged and skipped
load_phones(rec, phones, j) ==
    IF j > Len(phones) THEN rec
    ELSE load_phones(add_phone(rec, phones[j]).rec, phones, j + 1)

\* lines 263-268: a truthy birthday is set; only ValueError is caught
load_birthday(rec, value) ==
    IF ~Truthy(value) THEN [exc |-> "none", rec |-> rec]
    ELSE LET r == add_birthday(rec, value) IN
         IF r.exc = "ValueError" THEN [exc |-> "none", rec |-> rec] ELSE r

RECURSIVE load_records(_, _, _)
\* lines 254-270: the loop over raw_data.items()
load_records(book, entries, i) ==
    IF i > Len(entries) THEN [exc |-> "none", book |-> book]
    ELSE LET withPhones == load_phones(Record(entries[i].name), entries[i].phones, 1)
             withBirthday == load_birthday(withPhones, entries[i].birthday)
         IN  IF withBirthday.exc # "none"
             THEN [exc |-> withBirthday.exc, book |-> book]
             ELSE load_records(add_record(book, withBirthday.rec), entries, i + 1)

\* load_address_book: a missing or undecodable file gives an empty book
load_address_book(f) ==
    IF f.kind # "json" THEN [exc |-> "none", book |-> <<>>]
    ELSE load_records(<<>>, f.entries, 1)

-----------------------------------------------------------------------------
(* Command handlers: [exc, msg, book], msg naming the string returned *)

Raise(exc, book) == [exc |-> exc, msg |-> "", book |-> book]

Return(msg, book) == [exc |-> "none", msg |-> msg, book |-> book]

\* a variant that puts the new Record in the book before it adds the phone
add_contact_record_first(args, book) ==
    IF Len(args) < 2 THEN Raise("IndexError", book)
    ELSE LET name == args[1]
             phone == PyStr(args[2])
             found == find(book, name)
         IN  IF found.exc = "none"
             THEN LET r == add_phone(book[found.idx], phone) IN
                  IF r.exc # "none" THEN Raise(r.exc, book)
                  ELSE Return("phone_added", [book EXCEPT ![found.idx] = r.rec])
             ELSE LET r == add_phone(Record(name), phone) IN
                  IF r.exc # "none" THEN Raise(r.exc, add_record(book, Record(name)))
                  ELSE Return("contact_created", add_record(book, r.rec))

\* add_contact
add_contact(args, book) ==
    IF Len(args) < 2 THEN Raise("IndexError", book)
    ELSE LET name == args[1]
             phone == PyStr(args[2])
             found == find(book, name)
         IN  IF found.exc = "none"
             THEN LET r == add_phone(book[found.idx], phone) IN
                  IF r.exc # "none" THEN Raise(r.exc, book)
                  ELSE Return("phone_added", [book EXCEPT ![found.idx] = r.rec])
             ELSE LET r == add_phone(Record(name), phone) IN
                  IF r.exc # "none" THEN Raise(r.exc, book)
                  ELSE Return("contact_created", add_record(book, r.rec))

\* change_phone
change_phone(args, book) ==
    IF Len(args) < 3 THEN Raise("IndexError", book)
    ELSE LET name == args[1]
             found == find(book, name)
         IN  IF found.exc # "none" THEN Raise(found.exc, book)
             ELSE LET r == edit_phone(book[found.idx], PyStr(args[2]), PyStr(args[3])) IN
                  IF r.exc # "none" THEN Raise(r.exc, book)
                  ELSE IF r.ret
                  THEN Return("phone_changed", [book EXCEPT ![found.idx] = r.rec])
                  ELSE Return("old_phone_not_found", book)

\* show_phones
show_phones(args, book) ==
    IF Len(args) < 1 THEN Raise("IndexError", book)
    ELSE LET found == find(book, args[1]) IN
         IF found.exc # "none" THEN Raise(found.exc, book)
         ELSE IF book[found.idx].phones = <<>> THEN Return("no_phones", book)
         ELSE Return("phones", book)

\* show_all
show_all(args, book) ==
    IF book = <<>> THEN Return("book_empty", book) ELSE Return("records", book)

\* add_birthday (the handler)
add_birthday_cmd(args, book) ==
    IF Len(args) < 2 THEN Raise("IndexError", book)
    ELSE LET found == find(book, args[1]) IN
         IF found.exc # "none" THEN Raise(found.exc, book)
         ELSE LET r == add_birthday(book[found.idx], PyStr(args[2])) IN
              IF r.exc # "none" THEN Raise(r.exc, book)
              ELSE Return("birthday_set", [book EXCEPT ![found.idx] = r.rec])

\* show_birthday (the handler)
show_birthday_cmd(args, book) ==
    IF Len(args) < 1 THEN Raise("IndexError", book)
    ELSE LET found == find(book, args[1]) IN
         IF found.exc # "none" THEN Raise(found.exc, book)
         ELSE IF book[found.idx].birthday = NoDate THEN Return("birthday_not_set", book)
         ELSE Return("birthday", book)

\* show_upcoming_birthdays
show_upcoming_birthdays(book, today) ==
    LET r == get_upcoming_birthdays(book, today) IN
    IF r.exc # "none" THEN Raise(r.exc, book)
    ELSE IF r.upcoming = <<>> THEN Return("no_upcoming", book)
    ELSE Return("upcoming", book)

\* greet
greet(args, book) == Return("hello", book)

\* a variant of the wrapper without the ValueError and Exception clauses
input_error_two_clauses(r) ==
    IF r.exc = "none" THEN [raised |-> "none", printed |-> r.msg]
    ELSE IF r.exc = "KeyError" THEN [raised |-> "none", printed |-> "contact_not_found"]
    ELSE IF r.exc = "IndexError" THEN [raised |-> "none", printed |-> "bad_command"]
    ELSE [raised |-> r.exc, printed |-> ""]

\* the wrapper of @input_error: every exception of the handler is caught and
\* printed, and the wrapper returns None; `raised` is what escapes the wrapper
input_error(r) ==
    IF r.exc = "none" THEN [raised |-> "none", printed |-> r.msg]
    ELSE IF r.exc = "KeyError" THEN [raised |-> "none", printed |-> "contact_not_found"]
    ELSE IF r.exc = "ValueError" THEN [raised |-> "none", printed |-> "value_error"]
    ELSE IF r.exc = "IndexError" THEN [raised |-> "none", printed |-> "bad_command"]
    ELSE [raised |-> "none", printed |-> "unexpected_error"]

-----------------------------------------------------------------------------
(* Inputs *)

NameA == <<"A">>

NameB == <<"B">>

\* a name of one space, which only the file can hold: split() yields no such token
NameSpace == <<" ">>

Names == {NameA, NameB}

PhoneA == Rep("1", 10)

PhoneB == Rep("2", 10)

\* nine digits: wrong length
ShortPhone == Rep("1", 9)

\* ten characters, one of them no digit
AlphaPhone == Rep("1", 9) \o <<"x">>

PhoneArgs == {PhoneA, PhoneB, ShortPhone, AlphaPhone}

Jan1 == <<"0", "1", ".", "0", "1", ".", "2", "0", "0", "0">>

Feb29 == <<"2", "9", ".", "0", "2", ".", "2", "0", "2", "4">>

\* April has 30 days
Apr31 == <<"3", "1", ".", "0", "4", ".", "2", "0", "2", "3">>

BirthdayArgs == {Jan1, Feb29, Apr31}

Day(y, m, d) == [year |-> y, month |-> m, day |-> d]

\* values of date.today()
Todays ==
    { Day(2024, 12, 28), Day(2024, 12, 26), Day(2024, 12, 25), Day(2025, 1, 1),
      Day(2025, 1, 2), Day(2022, 12, 29), Day(2021, 12, 27), Day(2024, 2, 26),
      Day(2024, 3, 1) }

Entry(name, phones, birthday) == [name |-> name, phones |-> phones, birthday |-> birthday]

JsonFile(entries) == [kind |-> "json", entries |-> entries]

\* a file with phones and birthdays that fail validation, and a blank name
MixedFile ==
    JsonFile(<<Entry(NameA,
                     <<PyStr(PhoneA), PyStr(ShortPhone), PyNum(<<"5">>),
                       PyStr(AlphaPhone), PyStr(PhoneA)>>,
                     PyStr(Apr31)),
               Entry(NameSpace, <<PyStr(PhoneB)>>, PyNum(<<"0">>))>>)

\* a file whose first birthday is a number
NumberFile ==
    JsonFile(<<Entry(NameA, <<PyStr(PhoneA)>>, PyNum(<<"5">>)),
               Entry(NameB, <<PyStr(PhoneB)>>, PyStr(Jan1))>>)

\* contents of contacts.json when the program is started
InitFiles == {NoFile, CorruptFile, MixedFile, NumberFile}

-----------------------------------------------------------------------------
(* The program: main *)

VARIABLES
    pc,     \* "start" | "prompt" | "done" | "crashed"
    data,   \* address_book.data
    file,   \* contacts.json
    out     \* the last step: command, arguments, exception logged, line
            \* printed, and for birthdays the day and the list returned

vars == <<pc, data, file, out>>

Out(cmd, args, exc, printed, today, upcoming) ==
    [cmd |-> cmd, args |-> args, exc |-> exc, printed |-> printed,
     today |-> today, upcoming |-> upcoming]

Init ==
    /\ pc = "start"
    /\ data = <<>>
    /\ file \in InitFiles
    /\ out = Out("", <<>>, "none", "", NoDate, <<>>)

\* lines 392-394: the user answers y, the book is loaded
ChooseLoad ==
    /\ pc = "start"
    /\ LET r == load_address_book(file) IN
        /\ pc' = IF r.exc = "none" THEN "prompt" ELSE "crashed"
        /\ data' = IF r.exc = "none" THEN r.book ELSE <<>>
        /\ out' = Out("load", <<>>, r.exc, "", NoDate, <<>>)
    /\ UNCHANGED file

\* lines 395-397: any other answer, a new empty book
ChooseNew ==
    /\ pc = "start"
    /\ pc' = "prompt"
    /\ data' = <<>>
    /\ out' = Out("new", <<>>, "none", "new_book", NoDate, <<>>)
    /\ UNCHANGED file

\* lines 439-443: the handler is called through its wrapper and its result printed
Dispatch(cmd, args, r, today, upcoming) ==
    LET w == input_error(r) IN
    /\ pc = "prompt"
    /\ pc' = IF w.raised = "none" THEN "prompt" ELSE "crashed"
    /\ data' = r.book
    /\ out' = Out(cmd, args, r.exc, w.printed, today, upcoming)
    /\ UNCHANGED file

\* the command lines the model enters: every argument shape for contact A,
\* one line per command for contact B
AddLines ==
    {<<>>, <<NameA>>, <<NameB, PhoneB>>} \cup {<<NameA, p>> : p \in PhoneArgs}

ChangeLines ==
    {<<>>, <<NameA, PhoneA>>, <<NameB, PhoneA, PhoneB>>}
        \cup {<<NameA, o, p>> : o \in {PhoneA, PhoneB}, p \in PhoneArgs}

NameLines == {<<>>, <<NameA>>, <<NameB>>}

BirthdayLines ==
    {<<>>, <<NameA>>, <<NameB, Jan1>>} \cup {<<NameA, b>> : b \in BirthdayArgs}

\* add is entered while the phone list it appends to is shorter than MaxPhones
WithinBound(args, book) ==
    IF Len(args) < 2 THEN TRUE
    ELSE IF args[1] \notin KeysOf(book) THEN TRUE
    ELSE Len(book[IndexOf(book, args[1])].phones) < MaxPhones

CmdAdd ==
    \E args \in AddLines :
        /\ WithinBound(args, data)
        /\ Dispatch("add", args, add_contact(args, data), NoDate, <<>>)

CmdChange ==
    \E args \in ChangeLines :
        Dispatch("change", args, change_phone(args, data), NoDate, <<>>)

CmdPhone ==
    \E args \in NameLines :
        Dispatch("phone", args, show_phones(args, data), NoDate, <<>>)

CmdAll == Dispatch("all", <<>>, show_all(<<>>, data), NoDate, <<>>)

CmdAddBirthday ==
    \E args \in BirthdayLines :
        Dispatch("add-birthday", args, add_birthday_cmd(args, data), NoDate, <<>>)

CmdShowBirthday ==
    \E args \in NameLines :
        Dispatch("show-birthday", args, show_birthday_cmd(args, data), NoDate, <<>>)

CmdBirthdays ==
    \E today \in Todays :
        Dispatch("birthdays", <<>>, show_upcoming_birthdays(data, today), today,
                 get_upcoming_birthdays(data, today).upcoming)

CmdHello == Dispatch("hello", <<>>, greet(<<>>, data), NoDate, <<>>)

\* lines 415-416, 428-438, 444-445: an empty line, help, an unknown command
NoHandler ==
    /\ pc = "prompt"
    /\ \E cmd \in {"", "help", "unknown"} :
        out' = Out(cmd, <<>>, "none", cmd, NoDate, <<>>)
    /\ UNCHANGED <<pc, data, file>>

\* lines 423-426: close or exit saves the book and ends the loop
CmdClose ==
    /\ pc = "prompt"
    /\ \E cmd \in {"close", "exit"} :
        out' = Out(cmd, <<>>, "none", "goodbye", NoDate, <<>>)
    /\ file' = save_address_book(data)
    /\ pc' = "done"
    /\ UNCHANGED data

Next ==
    \/ ChooseLoad
    \/ ChooseNew
    \/ CmdAdd
    \/ CmdChange
    \/ CmdPhone
    \/ CmdAll
    \/ CmdAddBirthday
    \/ CmdShowBirthday
    \/ CmdBirthdays
    \/ CmdHello
    \/ NoHandler
    \/ CmdClose

Spec == Init /\ [][Next]_vars

-----------------------------------------------------------------------------
(* The classes as a library: the calls main makes, and the two methods it  *)
(* never calls, Record.remove_phone and AddressBook.delete.                *)

CallRemovePhone ==
    /\ pc = "prompt"
    /\ \E n \in KeysOf(data) \cap Names, p \in {PhoneA, PhoneB} :
        /\ data' = [data EXCEPT ![IndexOf(data, n)] = remove_phone(@, PyStr(p))]
        /\ out' = Out("remove_phone", <<n, p>>, "none", "", NoDate, <<>>)
    /\ UNCHANGED <<pc, file>>

CallDelete ==
    /\ pc = "prompt"
    /\ \E n \in Names :
        /\ data' = delete(data, n).book
        /\ out' = Out("delete", <<n>>, "none",
                      IF delete(data, n).ret THEN "True" ELSE "False", NoDate, <<>>)
    /\ UNCHANGED <<pc, file>>

NextLib == Next \/ CallRemovePhone \/ CallDelete

SpecLib == Init /\ [][NextLib]_vars

-----------------------------------------------------------------------------
(* Properties *)

\* the record stored under a name
RecordOf(book, name) == book[IndexOf(book, name)]

\* the names of the entries of a list returned by get_upcoming_birthdays
Emitted(upcoming) == {upcoming[i].name : i \in 1..Len(upcoming)}

\* the days from today to six days ahead on which the birthday's month/day falls
WindowDays(bday, today) ==
    {k \in 0..6 : LET d == AddDays(today, k) IN
                    d.month = bday.month /\ d.day = bday.day}

\* the birthday is set and its next occurrence is 0 to 6 days after today
Due(bday, today) == bday # NoDate /\ WindowDays(bday, today) # {}

\* the date of that occurrence
Occurrence(bday, today) == AddDays(today, CHOOSE k \in WindowDays(bday, today) : TRUE)

\* the date a "YYYY.MM.DD" string names
ParseYMD(s) ==
    [year |-> IntOf(SubSeq(s, 1, 4)), month |-> IntOf(SubSeq(s, 6, 7)),
     day |-> IntOf(SubSeq(s, 9, 10))]

\* C1: after the birthdays command, a contact is in the list it returned if
\* and only if it has a birthday whose next occurrence is 0 to 6 days after today
C1_EmittedIffDue ==
    out.cmd = "birthdays" =>
        \A i \in 1..Len(data) :
            (data[i].name \in Emitted(out.upcoming)) <=> Due(data[i].birthday, out.today)

\* the rule of the greeting date: the projected date on Monday to Friday,
\* two days later on a Saturday, one day later on a Sunday
GreetingRule(projected) ==
    IF weekday(projected) \in 0..4 THEN projected
    ELSE IF weekday(projected) = 5 THEN AddDays(projected, 2)
    ELSE AddDays(projected, 1)

\* C2: every entry the birthdays command returns carries the greeting date of
\* the rule; it is never a Saturday or Sunday, and a shifted one is a Monday
C2_GreetingDate ==
    out.cmd = "birthdays" =>
        \A i \in 1..Len(out.upcoming) :
            LET e == out.upcoming[i]
                bday == RecordOf(data, e.name).birthday
                projected == Occurrence(bday, out.today)
                greeting == ParseYMD(e.congratulation_date)
            IN  /\ Due(bday, out.today)
                /\ e.congratulation_date = FormatYMD(GreetingRule(projected))
                /\ weekday(greeting) \notin {5, 6}
                /\ greeting # projected => weekday(greeting) = 0

\* a returned entry whose greeting date was moved off a weekend
C2_Witness ==
    /\ out.cmd = "birthdays"
    /\ \E i \in 1..Len(out.upcoming) :
        LET e == out.upcoming[i]
            projected == Occurrence(RecordOf(data, e.name).birthday, out.today)
        IN  /\ weekday(projected) = 5
            /\ e.congratulation_date = FormatYMD(AddDays(projected, 2))

\* C3: no contact stores a phone value more than once
C3_PhonesUnique ==
    \A i \in 1..Len(data) :
        \A j, k \in 1..Len(data[i].phones) :
            data[i].phones[j] = data[i].phones[k] => j = k

\* the last step was change for a stored contact with a new number that is
\* not exactly 10 digits
ChangeWithInvalidNew(o) ==
    /\ o.cmd = "change"
    /\ Len(o.args) = 3
    /\ o.args[1] \in KeysOf(data)
    /\ ~(isdigit(o.args[3]) /\ Len(o.args[3]) = 10)

\* C4 as stated: EditPhone with an invalid new number always fails with
\* InvalidFormat, whether or not the old number is stored
C4_AlwaysInvalidFormat == ChangeWithInvalidNew(out) => out.exc = "ValueError"

\* C4 as amended: EditPhone with an invalid new number leaves the phone list
\* unchanged; it fails with InvalidFormat when a phone equal to the old number
\* is stored, and returns false when none is
C4_InvalidNewNumber ==
    [][ChangeWithInvalidNew(out') =>
          /\ data' = data
          /\ IF \E j \in 1..Len(RecordOf(data, out'.args[1]).phones) :
                   RecordOf(data, out'.args[1]).phones[j] = out'.args[2]
             THEN out'.exc = "ValueError"
             ELSE out'.exc = "none" /\ out'.printed = "old_phone_not_found"]_vars

\* change with an invalid new number and an old number that is not stored
C4_Witness ==
    /\ ChangeWithInvalidNew(out)
    /\ out.printed = "old_phone_not_found"
    /\ RecordOf(data, out.args[1]).phones # <<>>

\* C5: the birthdays command never raises
C5_NeverRaises == out.cmd = "birthdays" => out.exc = "none"

\* the (name, phones, birthday) triples of a book
Triples(book) ==
    {<<book[i].name, book[i].phones, book[i].birthday>> : i \in 1..Len(book)}

\* C6: the file written on close loads to a book with the same names, phone
\* sequences and birthdays
C6_RoundTrip ==
    pc = "done" =>
        /\ load_address_book(file).exc = "none"
        /\ Triples(load_address_book(file).book) = Triples(data)

\* C7: every stored contact has a name that is not empty or whitespace only
C7_NamesNotBlank == \A i \in 1..Len(data) : ~IsBlank(data[i].name)

\* the phones of a file entry that pass validation
ValidPhones(entry) ==
    {entry.phones[j].v : j \in {k \in 1..Len(entry.phones) :
        /\ entry.phones[k].t = "str"
        /\ isdigit(entry.phones[k].v)
        /\ Len(entry.phones[k].v) = 10}}

\* the birthday of a file entry if it passes validation, else none
ValidBirthday(entry) ==
    IF entry.birthday.t = "str" /\ strptime_dmy(entry.birthday.v).exc = "none"
    THEN strptime_dmy(entry.birthday.v).value
    ELSE NoDate

\* C8: loading never aborts; every name of the file is in the book with
\* exactly its valid phones and its valid birthday
C8_PartialRecovery ==
    (out.cmd = "load" /\ file.kind = "json") =>
        /\ pc = "prompt"
        /\ KeysOf(data) = {file.entries[i].name : i \in 1..Len(file.entries)}
        /\ \A i \in 1..Len(file.entries) :
            LET rec == RecordOf(data, file.entries[i].name) IN
            /\ {rec.phones[j] : j \in 1..Len(rec.phones)} = ValidPhones(file.entries[i])
            /\ rec.birthday = ValidBirthday(file.entries[i])

\* C9: from the prompt every line leads back to the prompt, except close and
\* exit, which end the loop with the book saved
C9_LoopContinues ==
    [][pc = "prompt" =>
          \/ pc' = "prompt"
          \/ /\ pc' = "done"
             /\ out'.cmd \in {"close", "exit"}
             /\ file' = save_address_book(data)]_vars

\* the birthdays command raised and the loop is at the prompt again
C9_Witness ==
    /\ pc = "prompt"
    /\ out.cmd = "birthdays"
    /\ out.exc = "ValueError"
    /\ out.printed = "value_error"

\* C10: an add, change or add-birthday command that ends in an error leaves
\* the book as it was
C10_ErrorLeavesBook ==
    [][(out'.cmd \in {"add", "change", "add-birthday"} /\ out'.exc # "none")
          => data' = data]_vars

\* add with a new name and an invalid phone: no contact of that name is stored
C10_Witness ==
    /\ out.cmd = "add"
    /\ out.exc = "ValueError"
    /\ Len(out.args) = 2
    /\ out.args[1] \notin KeysOf(data)

=============================================================================
